---- MODULE Spec2Model ----
(***************************************************************************)
(* Packaging & availability completion engine (src/fields/packaging_math.py)*)
(* modelled as a state machine over one CanonicalRow, and the persistent    *)
(* article-number counter (src/fields/article_number.py) as sessions that   *)
(* share one state file.                                                    *)
(*                                                                          *)
(* Python values are tagged records:                                        *)
(*   None   [t |-> "None"]                                                  *)
(*   bool   [t |-> "bool",  b |-> BOOLEAN]                                  *)
(*   int    [t |-> "int",   n |-> Int]                                      *)
(*   float  [t |-> "float", f |-> Num]                                      *)
(*   str    [t |-> "str",   s |-> sequence of one-character strings]        *)
(* A float (Num) is an exact rational n/d in lowest terms, or one of the    *)
(* IEEE specials nan, inf, ninf.  Rounding of finite doubles and overflow   *)
(* of finite doubles to infinity are outside the model.                     *)
(***************************************************************************)
EXTENDS Integers, Sequences, FiniteSets, TLC

----------------------------------------------------------------------------
(* Exact arithmetic on floats *)

Abs(i) == IF i < 0 THEN -i ELSE i

RECURSIVE Gcd(_, _)
Gcd(a, b) == IF b = 0 THEN a ELSE Gcd(b, a % b)

RECURSIVE Pow10(_)
Pow10(e) == IF e <= 0 THEN 1 ELSE 10 * Pow10(e - 1)

Fin(n, d) ==
    LET g == Gcd(Abs(n), Abs(d))
        s == IF d < 0 THEN -1 ELSE 1
    IN  [k |-> "fin", n |-> (s * n) \div g, d |-> (s * d) \div g]

NaN == [k |-> "nan", n |-> 0, d |-> 1]
PosInf == [k |-> "inf", n |-> 1, d |-> 1]
NegInf == [k |-> "ninf", n |-> -1, d |-> 1]

\* sign of a float: -1, 0, 1; nan has no sign (2)
Sign(x) ==
    CASE x.k = "nan" -> 2
      [] x.k = "inf" -> 1
      [] x.k = "ninf" -> -1
      [] OTHER -> IF x.n > 0 THEN 1 ELSE IF x.n < 0 THEN -1 ELSE 0

\* x > 0 and x <= 0 as Python evaluates them (both False for nan)
Gt0(x) == Sign(x) = 1
Le0(x) == Sign(x) \in {-1, 0}

\* x * y
FMul(x, y) ==
    IF x.k = "nan" \/ y.k = "nan" THEN NaN
    ELSE IF x.k = "fin" /\ y.k = "fin" THEN Fin(x.n * y.n, x.d * y.d)
    ELSE IF Sign(x) = 0 \/ Sign(y) = 0 THEN NaN
    ELSE IF Sign(x) * Sign(y) > 0 THEN PosInf ELSE NegInf

\* x / y for y # 0 (every division of the engine is guarded by y > 0)
FDiv(x, y) ==
    IF x.k = "nan" \/ y.k = "nan" THEN NaN
    ELSE IF x.k = "fin" /\ y.k = "fin" THEN Fin(x.n * y.d, x.d * y.n)
    ELSE IF x.k # "fin" /\ y.k # "fin" THEN NaN
    ELSE IF y.k # "fin" THEN Fin(0, 1)
    ELSE IF Sign(x) * Sign(y) > 0 THEN PosInf ELSE NegInf

\* ceiling of the rational n/d, d > 0
CeilDiv(n, d) == -((-n) \div d)

\* math.ceil: an int, or the exception Python raises for nan and infinities
MathCeil(x) ==
    CASE x.k = "nan" -> [exc |-> "ValueError", n |-> 0]
      [] x.k \in {"inf", "ninf"} -> [exc |-> "OverflowError", n |-> 0]
      [] OTHER -> [exc |-> "none", n |-> CeilDiv(x.n, x.d)]

----------------------------------------------------------------------------
(* Python values *)

None == [t |-> "None"]
PyBool(b) == [t |-> "bool", b |-> b]
PyInt(n) == [t |-> "int", n |-> n]
PyFloat(f) == [t |-> "float", f |-> f]
PyStr(s) == [t |-> "str", s |-> s]

\* the float a rational literal denotes
Rat(n, d) == PyFloat(Fin(n, d))

----------------------------------------------------------------------------
(* float(s) on text *)

DigitVal ==
    [c \in {"0", "1", "2", "3", "4", "5", "6", "7", "8", "9"} |->
        CASE c = "0" -> 0 [] c = "1" -> 1 [] c = "2" -> 2 [] c = "3" -> 3
          [] c = "4" -> 4 [] c = "5" -> 5 [] c = "6" -> 6 [] c = "7" -> 7
          [] c = "8" -> 8 [] OTHER -> 9]

IsDigit(c) == c \in DOMAIN DigitVal
IsSpace(c) == c \in {" ", "\t", "\n"}

Lower(c) ==
    CASE c = "N" -> "n" [] c = "A" -> "a" [] c = "I" -> "i" [] c = "F" -> "f"
      [] c = "T" -> "t" [] c = "Y" -> "y" [] c = "E" -> "e" [] OTHER -> c

LowerAll(s) == [i \in 1..Len(s) |-> Lower(s[i])]

RECURSIVE LStrip(_)
LStrip(s) == IF s # <<>> /\ IsSpace(Head(s)) THEN LStrip(Tail(s)) ELSE s

RECURSIVE RStrip(_)
RStrip(s) ==
    IF s # <<>> /\ IsSpace(s[Len(s)]) THEN RStrip(SubSeq(s, 1, Len(s) - 1)) ELSE s

\* str.strip()
Strip(s) == RStrip(LStrip(s))

\* s.replace(",", ".")
ReplaceComma(s) == [i \in 1..Len(s) |-> IF s[i] = "," THEN "." ELSE s[i]]

AllDigits(s) == \A i \in 1..Len(s) : IsDigit(s[i])

RECURSIVE DigitsToInt(_)
DigitsToInt(s) ==
    IF s = <<>> THEN 0
    ELSE 10 * DigitsToInt(SubSeq(s, 1, Len(s) - 1)) + DigitVal[s[Len(s)]]

\* position of the first occurrence of c in s, or 0
IndexOf(s, c) ==
    IF \E i \in 1..Len(s) : s[i] = c
    THEN CHOOSE i \in 1..Len(s) : s[i] = c /\ \A j \in 1..(i - 1) : s[j] # c
    ELSE 0

\* the value of the decimal literal ip.fp with exponent e (negative if eNeg)
DecimalValue(neg, ip, fp, eNeg, e) ==
    Fin((IF neg THEN -1 ELSE 1) * DigitsToInt(ip \o fp) * (IF eNeg THEN 1 ELSE Pow10(e)),
        Pow10(Len(fp)) * (IF eNeg THEN Pow10(e) ELSE 1))

\* digits [. digits] [e [sign] digits], at least one digit in the mantissa
ParseParts(neg, ip, fp, hasExp, eNeg, eDigits) ==
    IF /\ AllDigits(ip)
       /\ AllDigits(fp)
       /\ Len(ip) + Len(fp) > 0
       /\ (~hasExp \/ (eDigits # <<>> /\ AllDigits(eDigits)))
    THEN PyFloat(DecimalValue(neg, ip, fp, eNeg, IF hasExp THEN DigitsToInt(eDigits) ELSE 0))
    ELSE None

SplitDot(neg, mant, dot, hasExp, eNeg, eDigits) ==
    ParseParts(neg,
               IF dot = 0 THEN mant ELSE SubSeq(mant, 1, dot - 1),
               IF dot = 0 THEN <<>> ELSE SubSeq(mant, dot + 1, Len(mant)),
               hasExp, eNeg, eDigits)

SplitExpSign(neg, mant, hasExp, expo, eSigned) ==
    SplitDot(neg, mant, IndexOf(mant, "."), hasExp,
             eSigned /\ Head(expo) = "-",
             IF eSigned THEN Tail(expo) ELSE expo)

SplitExp(neg, mant, hasExp, expo) ==
    SplitExpSign(neg, mant, hasExp, expo, expo # <<>> /\ Head(expo) \in {"+", "-"})

ParseDecimal(neg, body, ePos) ==
    SplitExp(neg,
             IF ePos = 0 THEN body ELSE SubSeq(body, 1, ePos - 1),
             ePos # 0,
             IF ePos = 0 THEN <<>> ELSE SubSeq(body, ePos + 1, Len(body)))

ParseUnsigned(neg, body) ==
    IF body \in {<<"i", "n", "f">>, <<"i", "n", "f", "i", "n", "i", "t", "y">>}
    THEN PyFloat(IF neg THEN NegInf ELSE PosInf)
    ELSE IF body = <<"n", "a", "n">> THEN PyFloat(NaN)
    ELSE ParseDecimal(neg, body, IndexOf(body, "e"))

ParseSigned(s, signed) ==
    ParseUnsigned(signed /\ Head(s) = "-", LowerAll(IF signed THEN Tail(s) ELSE s))

\* float(s) for s already stripped: a float value, or None for ValueError
ParseFloat(s) == ParseSigned(s, s # <<>> /\ Head(s) \in {"+", "-"})

----------------------------------------------------------------------------
(* Records *)

TriadFields == {"piece_per_case", "case_per_pallet", "pieces_per_pallet"}
AvailFields == {"availability_pieces", "availability_cartons", "availability_pallets"}
OpaqueFields == {"ean"}
Fields == TriadFields \cup AvailFields \cup OpaqueFields

\* the order in which the engine's loops visit the availability fields
AvailOrder == <<"availability_pieces", "availability_cartons", "availability_pallets">>

\* row.get(k)
Get(row, k) == row[k]

\* row[k] = v
Put(row, k, v) == [row EXCEPT ![k] = v]

\* a call that returned `row`, or raised `exc` leaving the dict as mutated so far
Ok(row) == [row |-> row, exc |-> "none"]
Raised(row, exc) == [row |-> row, exc |-> exc]

----------------------------------------------------------------------------
(* Numeric coercion and validation *)

\* lines 32-35: empty text is None, otherwise float() of the text with "," as "."
FloatOfText(s) == IF s = <<>> THEN None ELSE ParseFloat(ReplaceComma(s))

\* variant of _to_number: the test for bool is left out, True is 1.0 and
\* False is 0.0
ToNumberBoolAsInt(value) ==
    CASE value.t = "None" -> None
      [] value.t = "bool" -> IF value.b THEN Rat(1, 1) ELSE Rat(0, 1)
      [] value.t = "int" -> Rat(value.n, 1)
      [] value.t = "float" -> value
      [] OTHER -> FloatOfText(Strip(value.s))

_to_number(value) ==
    CASE value.t = "None" -> None
      [] value.t = "bool" -> None
      [] value.t = "int" -> Rat(value.n, 1)
      [] value.t = "float" -> value
      [] OTHER -> FloatOfText(Strip(value.s))

\* v is not None and v > 0
IsPositive(v) == v # None /\ Gt0(v.f)

_is_valid_positive_number(value) == IsPositive(_to_number(value))

\* int(math.ceil(v)): [exc, val]
CeilResult(c) == [exc |-> c.exc, val |-> PyInt(c.n)]

\* variant of CeilIntOf: int(v) + 1 in place of math.ceil(v)
CeilIntPlusOne(v) ==
    IF v = None \/ Le0(v.f) THEN [exc |-> "none", val |-> None]
    ELSE [exc |-> MathCeil(v.f).exc, val |-> PyInt((v.f.n \div v.f.d) + 1)]

\* lines 52-54 on v = _to_number(value)
CeilIntOf(v) ==
    IF v = None \/ Le0(v.f) THEN [exc |-> "none", val |-> None]
    ELSE CeilResult(MathCeil(v.f))

\* [exc, val]: val is None or an int; exc is what math.ceil raised
_ceil_int(value) == CeilIntOf(_to_number(value))

\* lines 66-67: a value that is not a number is forced to None
\* variant of ClearJunk: what is not a number is kept as it is
ClearJunkKept(row, k) == Ok(row)

ClearJunk(row, k) ==
    IF _to_number(Get(row, k)) = None THEN Ok(Put(row, k, None)) ELSE Ok(row)

\* variant of FinalizeValue: a zero or negative number is forced to None as well
FinalizeValueClearNonPositive(row, k, vi) ==
    IF vi.exc # "none" THEN Raised(row, vi.exc)
    ELSE Ok(Put(row, k, vi.val))

\* lines 64-67 with vi = _ceil_int(row.get(k))
FinalizeValue(row, k, vi) ==
    IF vi.exc # "none" THEN Raised(row, vi.exc)
    ELSE ClearJunk(Put(row, k, IF vi.val # None THEN vi.val ELSE Get(row, k)), k)

\* one turn of the loop of _finalize_availability_ints, for key k
FinalizeKey(o, k) ==
    IF o.exc # "none" THEN o
    ELSE FinalizeValue(o.row, k, _ceil_int(Get(o.row, k)))

\* variant of _finalize_availability_ints: the loop runs over every field of
\* the record, not only the availability fields
FinalizeEveryField(row) ==
    FinalizeKey(
        FinalizeKey(FinalizeKey(FinalizeKey(Ok(row), AvailOrder[1]), AvailOrder[2]),
                    AvailOrder[3]),
        "ean")

_finalize_availability_ints(row) ==
    FinalizeKey(FinalizeKey(FinalizeKey(Ok(row), AvailOrder[1]), AvailOrder[2]), AvailOrder[3])

----------------------------------------------------------------------------
(* Double-stackable adjustment *)

\* variant of DoubleValue: rounds up before doubling
DoubleValueCeilFirst(row, k, v) ==
    IF v # None /\ Gt0(v.f) /\ v.f.k = "fin"
    THEN Put(row, k, PyInt(2 * CeilDiv(v.f.n, v.f.d)))
    ELSE row

\* lines 75-76 with v = _to_number(row.get(k))
DoubleValue(row, k, v) ==
    IF v # None /\ Gt0(v.f) THEN Put(row, k, PyFloat(FMul(v.f, Fin(2, 1)))) ELSE row

DoubleKey(row, k) == DoubleValue(row, k, _to_number(Get(row, k)))

apply_double_stackable(row) ==
    _finalize_availability_ints(
        DoubleKey(DoubleKey(DoubleKey(row, AvailOrder[1]), AvailOrder[2]), AvailOrder[3]))

----------------------------------------------------------------------------
(* Triad completion *)

\* A and B -> C
RuleAB(row, a, b) ==
    IF /\ IsPositive(a)
       /\ IsPositive(b)
       /\ Get(row, "pieces_per_pallet") = None
    THEN Put(row, "pieces_per_pallet", PyFloat(FMul(a.f, b.f)))
    ELSE row

\* variant of RuleAC: B is derived as C times A
RuleACMultiplied(row, a, c) ==
    IF /\ IsPositive(a)
       /\ IsPositive(c)
       /\ Get(row, "case_per_pallet") = None
    THEN Put(row, "case_per_pallet", PyFloat(FMul(c.f, a.f)))
    ELSE row

\* A and C -> B
RuleAC(row, a, c) ==
    IF /\ IsPositive(a)
       /\ IsPositive(c)
       /\ Get(row, "case_per_pallet") = None
    THEN Put(row, "case_per_pallet", PyFloat(FDiv(c.f, a.f)))
    ELSE row

\* B and C -> A
RuleBC(row, b, c) ==
    IF /\ IsPositive(b)
       /\ IsPositive(c)
       /\ Get(row, "piece_per_case") = None
    THEN Put(row, "piece_per_case", PyFloat(FDiv(c.f, b.f)))
    ELSE row

\* the float x rounded up to a whole number
RoundedUp(x) == IF x.k = "fin" THEN Rat(CeilDiv(x.n, x.d), 1) ELSE PyFloat(x)

\* variant of TriadRules: the derived member is rounded up
TriadRulesRounded(row, a, b, c) ==
    IF IsPositive(a) /\ IsPositive(b) /\ Get(row, "pieces_per_pallet") = None
    THEN Put(row, "pieces_per_pallet", RoundedUp(FMul(a.f, b.f)))
    ELSE IF IsPositive(a) /\ IsPositive(c) /\ Get(row, "case_per_pallet") = None
    THEN Put(row, "case_per_pallet", RoundedUp(FDiv(c.f, a.f)))
    ELSE IF IsPositive(b) /\ IsPositive(c) /\ Get(row, "piece_per_case") = None
    THEN Put(row, "piece_per_case", RoundedUp(FDiv(c.f, b.f)))
    ELSE row

\* variant of TriadRules: the guards on an absent target are left out
TriadRulesUnguarded(row, a, b, c) ==
    LET r1 == IF IsPositive(a) /\ IsPositive(b)
              THEN Put(row, "pieces_per_pallet", PyFloat(FMul(a.f, b.f)))
              ELSE row
    IN  IF IsPositive(a) /\ IsPositive(c)
        THEN Put(r1, "case_per_pallet", PyFloat(FDiv(c.f, a.f)))
        ELSE r1

\* the three rules in source order, on a, b, c as read at the top of the call
TriadRules(row, a, b, c) == RuleBC(RuleAC(RuleAB(row, a, b), a, c), b, c)

complete_packaging_triad(row) ==
    TriadRules(row,
               _to_number(Get(row, "piece_per_case")),
               _to_number(Get(row, "case_per_pallet")),
               _to_number(Get(row, "pieces_per_pallet")))

----------------------------------------------------------------------------
(* Availability derivation *)

\* row[k] = c for c = math.ceil(x), or the exception math.ceil raised
PutCeilResult(o, k, c) ==
    IF c.exc # "none" THEN Raised(o.row, c.exc) ELSE Ok(Put(o.row, k, PyInt(c.n)))

\* variant of PutCeil: math.floor in place of math.ceil
PutFloor(o, k, x) ==
    IF o.exc # "none" THEN o
    ELSE IF x.k # "fin" THEN Raised(o.row, MathCeil(x).exc)
    ELSE Ok(Put(o.row, k, PyInt(x.n \div x.d)))

\* row[k] = math.ceil(x), unless an earlier statement already raised
PutCeil(o, k, x) ==
    IF o.exc # "none" THEN o ELSE PutCeilResult(o, k, MathCeil(x))

\* variant of FillCartons: cartons are written whether or not already given
FillCartonsOverwrite(o, pieces, ppc) ==
    IF /\ o.exc = "none"
       /\ IsPositive(ppc)
    THEN PutCeil(o, "availability_cartons", FDiv(pieces.f, ppc.f))
    ELSE o

\* lines 128-129 and 148-149
FillCartons(o, pieces, ppc) ==
    IF /\ o.exc = "none"
       /\ Get(o.row, "availability_cartons") = None
       /\ IsPositive(ppc)
    THEN PutCeil(o, "availability_cartons", FDiv(pieces.f, ppc.f))
    ELSE o

\* lines 131-132 and 151-152
FillPallets(o, pieces, ppp) ==
    IF /\ o.exc = "none"
       /\ Get(o.row, "availability_pallets") = None
       /\ IsPositive(ppp)
    THEN PutCeil(o, "availability_pallets", FDiv(pieces.f, ppp.f))
    ELSE o

\* pallets as ceil(cartons / case_per_pallet)
PalletsFromCartons(o, cartons, cpp) ==
    IF /\ Get(o.row, "availability_pallets") = None
       /\ IsPositive(cartons)
       /\ IsPositive(cpp)
    THEN PutCeil(o, "availability_pallets", FDiv(cartons.f, cpp.f))
    ELSE o

\* variant of FillFromPieces: without pieces, pallets are taken from cartons
FillFromPiecesOrCartons(o, pieces, ppc, ppp) ==
    IF o.exc # "none" THEN o
    ELSE IF IsPositive(pieces) THEN FillPallets(FillCartons(o, pieces, ppc), pieces, ppp)
    ELSE PalletsFromCartons(o, _to_number(Get(o.row, "availability_cartons")),
                            _to_number(Get(o.row, "case_per_pallet")))

\* the two fills from pieces (forward, and again cross-fill)
FillFromPieces(o, pieces, ppc, ppp) ==
    IF o.exc # "none" \/ ~IsPositive(pieces) THEN o
    ELSE FillPallets(FillCartons(o, pieces, ppc), pieces, ppp)

\* variant of ReversePieces: pallets are tried before cartons
ReversePiecesPalletsFirst(o, cartons, pallets, ppc, ppp) ==
    IF o.exc # "none" \/ Get(o.row, "availability_pieces") # None THEN o
    ELSE IF IsPositive(pallets) /\ IsPositive(ppp)
         THEN PutCeil(o, "availability_pieces", FMul(pallets.f, ppp.f))
    ELSE IF IsPositive(cartons) /\ IsPositive(ppc)
         THEN PutCeil(o, "availability_pieces", FMul(cartons.f, ppc.f))
    ELSE o

\* pieces from cartons, else from pallets, only if pieces is None
ReversePieces(o, cartons, pallets, ppc, ppp) ==
    IF o.exc # "none" \/ Get(o.row, "availability_pieces") # None THEN o
    ELSE IF IsPositive(cartons) /\ IsPositive(ppc)
         THEN PutCeil(o, "availability_pieces", FMul(cartons.f, ppc.f))
    ELSE IF IsPositive(pallets) /\ IsPositive(ppp)
         THEN PutCeil(o, "availability_pieces", FMul(pallets.f, ppp.f))
    ELSE o

\* variant of CrossFill: the fills are not repeated after the reverse step
CrossFillSkipped(o, ppc, ppp) == o

\* lines 146-152: pieces is read again, then the fills are repeated
CrossFill(o, ppc, ppp) ==
    IF o.exc # "none" THEN o
    ELSE FillFromPieces(o, _to_number(Get(o.row, "availability_pieces")), ppc, ppp)

\* line 155
FinalizeOutcome(o) ==
    IF o.exc # "none" THEN o ELSE _finalize_availability_ints(o.row)

\* the stages in order, on the locals read at the top of the call
AvailabilityStages(row, pieces, cartons, pallets, ppc, ppp) ==
    FinalizeOutcome(
        CrossFill(
            ReversePieces(FillFromPieces(Ok(row), pieces, ppc, ppp),
                          cartons, pallets, ppc, ppp),
            ppc, ppp))

complete_availability(row) ==
    AvailabilityStages(row,
                       _to_number(Get(row, "availability_pieces")),
                       _to_number(Get(row, "availability_cartons")),
                       _to_number(Get(row, "availability_pallets")),
                       _to_number(Get(row, "piece_per_case")),
                       _to_number(Get(row, "pieces_per_pallet")))

----------------------------------------------------------------------------
(* dict(row) == before *)

\* Python ==: bool, int and float compare by numeric value; an object equals itself
AsNum(v) ==
    CASE v.t = "bool" -> Fin(IF v.b THEN 1 ELSE 0, 1)
      [] v.t = "int" -> Fin(v.n, 1)
      [] OTHER -> v.f

PyEq(x, y) ==
    \/ x = y
    \/ /\ x.t \in {"bool", "int", "float"}
       /\ y.t \in {"bool", "int", "float"}
       /\ AsNum(x).k # "nan"
       /\ AsNum(x) = AsNum(y)

DictEq(r1, r2) == \A k \in Fields : PyEq(r1[k], r2[k])

----------------------------------------------------------------------------
(* Article numbers (src/fields/article_number.py; src/article_number/logic.py *)
(* holds the same functions, without reset)                                  *)

\* ArticleNumberConfig
prefix == <<"A", "C">>
width == 8
start_next == 1000

DigitChar == <<"0", "1", "2", "3", "4", "5", "6", "7", "8", "9">>

\* the decimal digits of n >= 0
RECURSIVE Digits(_)
Digits(n) ==
    IF n < 10 THEN <<DigitChar[n + 1]>>
    ELSE Digits(n \div 10) \o <<DigitChar[(n % 10) + 1]>>

\* format spec 0{width}d: zeros on the left up to w characters, never cut
RECURSIVE ZeroPad(_, _)
ZeroPad(ds, w) == IF Len(ds) >= w THEN ds ELSE ZeroPad(<<"0">> \o ds, w)

\* [exc, val]: the article number of n as text
format_article_number(n) ==
    IF n < 0 THEN [exc |-> "ArticleNumberError", val |-> <<>>]
    ELSE [exc |-> "none", val |-> prefix \o ZeroPad(Digits(n), width)]

\* the state file: missing, or text that is not JSON, JSON that is no object,
\* an object without "next", or the object {"next": <token>}
Missing == [k |-> "missing", tok |-> <<>>]
Garbage == [k |-> "garbage", tok |-> <<>>]
NotDict == [k |-> "notdict", tok |-> <<>>]
NoKey == [k |-> "nokey", tok |-> <<>>]
Doc(tok) == [k |-> "doc", tok |-> tok]

\* json.dumps of an int
JsonNumber(n) == IF n < 0 THEN <<"-">> \o Digits(-n) ELSE Digits(n)

\* an integer literal of JSON: digits, or "-" and digits
IsIntLiteral(tok) ==
    \/ tok # <<>> /\ AllDigits(tok)
    \/ Len(tok) > 1 /\ Head(tok) = "-" /\ AllDigits(Tail(tok))

IntLiteral(tok) ==
    IF Head(tok) = "-" THEN -DigitsToInt(Tail(tok)) ELSE DigitsToInt(tok)

\* json.loads of a token: true, false, null, a string, an int, else a float
JsonValue(tok) ==
    CASE tok = <<"t", "r", "u", "e">> -> PyBool(TRUE)
      [] tok = <<"f", "a", "l", "s", "e">> -> PyBool(FALSE)
      [] tok = <<"n", "u", "l", "l">> -> None
      [] Head(tok) = "\"" -> PyStr(SubSeq(tok, 2, Len(tok) - 1))
      [] IsIntLiteral(tok) -> PyInt(IntLiteral(tok))
      [] OTHER -> ParseFloat(tok)

\* isinstance(v, int): bool is a subclass of int
IsInstanceInt(v) == v.t \in {"int", "bool"}

\* the integer an int or bool counts as in arithmetic, comparison and range()
IntOf(v) == IF v.t = "bool" THEN (IF v.b THEN 1 ELSE 0) ELSE v.n

\* lines 59-63 on nxt = raw["next"]
CheckNext(nxt) ==
    IF ~IsInstanceInt(nxt) \/ IntOf(nxt) < 0
    THEN [exc |-> "ArticleNumberError", val |-> None]
    ELSE [exc |-> "none", val |-> nxt]

\* [exc, val]: the next integer to allocate, or ArticleNumberError
_load_state(f) ==
    CASE f.k = "missing" -> [exc |-> "none", val |-> PyInt(start_next)]
      [] f.k = "doc" -> CheckNext(JsonValue(f.tok))
      [] OTHER -> [exc |-> "ArticleNumberError", val |-> None]

\* list(range(a, a + c)) formatted
FormatRange(a, c) == [i \in 1..c |-> format_article_number(a + i - 1).val]

\* allocate's test of its argument (line 85)
ValidCount(count) == IsInstanceInt(count) /\ IntOf(count) > 0

----------------------------------------------------------------------------
(* Bounds and inputs *)

\* apply_packaging_math(row, max_iterations: int = 3)
DEFAULT_MAX_ITERATIONS == 3

\* at most this many fields of an input record hold an unusual value
MaxExotic == 1

\* the engine pass is run at most this many times on one record
MaxCalls == 2

\* the largest max_iterations a caller passes
MaxCap == 5

\* the default cap and the larger ones
Caps == DEFAULT_MAX_ITERATIONS .. MaxCap

\* at most this many article-number calls are made
MaxOps == 3

Chars(s) == PyStr(s)

\* ordinary supplier quantities of each field
CoreValues(k) ==
    CASE k = "piece_per_case" -> {PyInt(12), PyInt(10)}
      [] k = "case_per_pallet" -> {PyInt(10), PyInt(12)}
      [] k = "pieces_per_pallet" -> {PyInt(120), PyInt(10)}
      [] k = "availability_pieces" -> {PyInt(130)}
      [] k = "availability_cartons" -> {PyInt(5)}
      [] k = "availability_pallets" -> {PyInt(2)}
      [] OTHER -> {Chars(<<"8", "7", "1">>)}

\* the value kinds the extraction may hand over besides None and plain ints
ExoticValues ==
    { Chars(<<" ">>),                      \* empty text
      Chars(<<"n", "/", "a">>),            \* non-numeric text
      PyBool(TRUE),                        \* boolean
      Chars(<<"0">>),                      \* zero, as text
      PyInt(-5),                           \* negative
      Chars(<<"2", ",", "5">>),            \* decimal comma
      Rat(5, 1),                           \* a float with an integral value
      Chars(<<"n", "a", "n">>),            \* text denoting NaN
      PyFloat(PosInf) }                    \* native infinity

NumericFields == TriadFields \cup AvailFields

\* the values of field k when the fields in E hold an unusual value
FieldValues(k, E) ==
    IF k \in E THEN ExoticValues
    ELSE IF k \in OpaqueFields THEN CoreValues(k)
    ELSE {None} \cup CoreValues(k)

RowsWith(E) ==
    [ piece_per_case : FieldValues("piece_per_case", E),
      case_per_pallet : FieldValues("case_per_pallet", E),
      pieces_per_pallet : FieldValues("pieces_per_pallet", E),
      availability_pieces : FieldValues("availability_pieces", E),
      availability_cartons : FieldValues("availability_cartons", E),
      availability_pallets : FieldValues("availability_pallets", E),
      ean : FieldValues("ean", E) ]

Rows ==
    UNION { RowsWith(E) : E \in {S \in SUBSET NumericFields : Cardinality(S) <= MaxExotic} }

\* a record with nothing filled in
BlankRow == [k \in Fields |-> None]

\* the sessions (processes) that share the state file
Sessions == {"s1", "s2"}

\* the values of "next" a state file is found with
InitialTokens ==
    { <<"4", "1">>,                                   \* a counter
      <<"9", "9", "9", "9", "9", "9", "9", "9">>,     \* the last 8-digit number
      <<"t", "r", "u", "e">>,                         \* a JSON boolean
      <<"-", "5">>,                                   \* negative
      <<"1", ".", "5">>,                              \* not an integer
      <<"\"", "7", "\"">>,                            \* a string
      <<"n", "u", "l", "l">> }

InitialFiles == {Missing, Garbage, NotDict, NoKey} \cup {Doc(tok) : tok \in InitialTokens}

\* the arguments allocate is called with
CountValues ==
    {PyInt(1), PyInt(2), PyBool(TRUE), PyInt(0), PyInt(-1), Chars(<<"2">>), Rat(1, 1)}

\* the arguments reset is called with
ResetValues == {PyInt(-1), PyInt(41)}

----------------------------------------------------------------------------
(* State *)

----------------------------------------------------------------------------
(* Chunked extraction: settings, rows, JSON text, replies of the model *)

CHUNK_SIZE == 50
MAX_TEXT_CHARS_BEFORE_LLM == 120000
JSON_RETRY_ATTEMPTS == 3

\* the largest sheet, and the largest chunk size besides the default
MaxRows == 4
MaxChunkSize == 3

\* the characters one row takes in the indented JSON text: a short row, and a
\* row of long descriptions
RowChars == {100, 50000}

\* a sheet of n rows, each w characters of JSON
ExcelRows(n, w) == [j \in 1 .. n |-> [id |-> j, chars |-> w]]

ChunkSizes == (1 .. MaxChunkSize) \cup {CHUNK_SIZE}

RECURSIVE SumChars(_)
SumChars(rs) == IF rs = <<>> THEN 0 ELSE rs[1].chars + SumChars(Tail(rs))

\* len(json.dumps(rs, indent=2)): "[]", or "[" newline, the rows separated by
\* "," newline, newline "]"
JsonChars(rs) == IF rs = <<>> THEN 2 ELSE SumChars(rs) + 2 * (Len(rs) - 1) + 4

\* the ids of the rows rs, in order
IdsOf(rs) == [j \in 1 .. Len(rs) |-> rs[j].id]

\* what a request can bring: content of one of these kinds, or an exception
\* of the client
ReplyKinds ==
    { "none",             \* no content: None or ""
      "blank",            \* white space only
      "products",         \* {"products": [one product per row]}
      "trailing_comma",   \* the same with a comma before a closing bracket
      "object",           \* one product object, no "products" key
      "empty_array",      \* []
      "invalid" }         \* text that is not JSON and not repaired by the two fixes

Reply(k, c) ==
    [k |-> k,
     ids |-> CASE k \in {"products", "trailing_comma"} -> IdsOf(c)
               [] k = "object" -> <<c[1].id>>
               [] OTHER -> <<>>]

Failure == [k |-> "exception", ids |-> <<>>]

\* the outcomes of one request about chunk c
Outcomes(c) == {Reply(k, c) : k \in ReplyKinds} \cup {Failure}

\* parsed JSON: a dict with or without the key "products", or a list
ParsedDict(has, ids) == [t |-> "dict", has |-> has, ids |-> ids]
ParsedList(ids) == [t |-> "list", has |-> FALSE, ids |-> ids]

\* _parse_llm_response: [exc, val]
_parse_llm_response(raw) ==
    CASE raw.k \in {"none", "blank"} -> [exc |-> "ValueError", val |-> None]
      [] raw.k = "products" -> [exc |-> "none", val |-> ParsedDict(TRUE, raw.ids)]
      [] raw.k = "trailing_comma" -> [exc |-> "none", val |-> ParsedDict(TRUE, raw.ids)]
      [] raw.k = "object" -> [exc |-> "none", val |-> ParsedDict(FALSE, raw.ids)]
      [] raw.k = "empty_array" -> [exc |-> "none", val |-> ParsedList(raw.ids)]
      [] OTHER -> [exc |-> "ValueError", val |-> None]

\* lines 138-140: what the call returns for a parsed value; a product is
\* written as the id of its row
ProductsOf(parsed) ==
    IF parsed.t = "dict" /\ parsed.has THEN parsed.ids
    ELSE IF parsed.t = "dict" THEN <<parsed.ids[1]>>
    ELSE parsed.ids

\* variant of AfterParse: the loop asks for one repair more
AfterParseOneMore(raw, n) ==
    IF _parse_llm_response(raw).exc = "none"
    THEN [to |-> "done", products |-> ProductsOf(_parse_llm_response(raw).val)]
    ELSE IF n >= JSON_RETRY_ATTEMPTS
    THEN [to |-> "raise", products |-> <<>>]
    ELSE [to |-> "repair", products |-> <<>>]

\* lines 135-147: the turn of the loop with retry = n on the text raw
AfterParse(raw, n) ==
    IF _parse_llm_response(raw).exc = "none"
    THEN [to |-> "done", products |-> ProductsOf(_parse_llm_response(raw).val)]
    ELSE IF n >= JSON_RETRY_ATTEMPTS - 1
    THEN [to |-> "raise", products |-> <<>>]
    ELSE [to |-> "repair", products |-> <<>>]

\* num_chunks, line 194
NumChunks(total_rows, size) == (total_rows + size - 1) \div size

MinOf(x, y) == IF x <= y THEN x ELSE y

\* variant of ChunkAt: a chunk runs one row into the next one
ChunkAtOverlapping(rs, size, n) ==
    SubSeq(rs, n * size + 1, MinOf(n * size + size + 1, Len(rs)))

\* lines 197-200: sanitized_rows[start_idx:end_idx] of chunk n, counted from 0
ChunkAt(rs, size, n) ==
    SubSeq(rs, n * size + 1, MinOf(n * size + size, Len(rs)))

VARIABLES
    input,      \* the record as first handed to the engine
    flag,       \* the caller's double-stackable flag
    entry,      \* the record at the start of the current engine pass
    arg,        \* the record as passed to the current apply_packaging_math call
    row,        \* the record (one dict, mutated in place)
    pc,         \* "start", "enter", "triad", "avail", "returned", "raised"
    exc,        \* the exception that escaped, or "none"
    cap,        \* max_iterations of the current apply_packaging_math call
    iter,       \* loop iterations completed in the current call
    before,     \* the snapshot `before` of the current iteration
    calls,      \* engine passes completed
    file,       \* data/article_number.json
    tmp,        \* data/article_number.tmp
    call,       \* per session: the article-number call in progress and its locals
    log,        \* the calls that ended, in order, each with what it returned or raised
    ops,        \* article-number calls begun
    fd,         \* per session: where the file it has open for writing is now
    rows,           \* process_excel_in_chunks: the rows passed in
    chunk_size,     \* its chunk_size
    xpc,            \* "off", "start", "call", "fallback", "repair", "returned", "raised"
    chunk_no,       \* the loop variable i of the chunk loop
    all_products,   \* the products collected so far
    raw_output,     \* _call_llm_extraction_for_chunk: the text being parsed
    retry,          \* its loop variable
    outcome,        \* what process_excel_in_chunks returned or raised
    sent,           \* the row ids of each chunk call made, in order
    results,        \* what each chunk call returned, in order
    requests,       \* requests made to the model
    parses,         \* calls of _parse_llm_response in the current chunk call
    repairs         \* repair requests in the current chunk call

vars == <<input, flag, entry, arg, row, pc, exc, cap, iter, before, calls,
          file, tmp, call, log, ops, fd,
          rows, chunk_size, xpc, chunk_no, all_products, raw_output, retry, outcome,
          sent, results, requests, parses, repairs>>

\* the variables of the packaging engine, and of the article-number store
engine == <<input, flag, entry, arg, row, pc, exc, cap, iter, before, calls>>
store == <<file, tmp, call, log, ops, fd>>

\* the variables of the chunked extraction
extraction == <<rows, chunk_size, xpc, chunk_no, all_products, raw_output, retry,
                outcome, sent, results, requests, parses, repairs>>

NoReply == [k |-> "none", ids |-> <<>>]
NoOutcome == [exc |-> "none", val |-> <<>>]

\* no extraction is under way
NoExtraction ==
    /\ rows = <<>>
    /\ chunk_size = CHUNK_SIZE
    /\ xpc = "off"
    /\ chunk_no = 0
    /\ all_products = <<>>
    /\ raw_output = NoReply
    /\ retry = 0
    /\ outcome = NoOutcome
    /\ sent = <<>>
    /\ results = <<>>
    /\ requests = 0
    /\ parses = 0
    /\ repairs = 0

\* no call in progress
Idle == [pc |-> "idle", op |-> "none", arg |-> None, next_value |-> 0, allocated |-> <<>>]

Init ==
    /\ input \in Rows
    /\ flag \in BOOLEAN
    /\ entry = input
    /\ arg = input
    /\ row = input
    /\ pc = "start"
    /\ exc = "none"
    /\ cap = DEFAULT_MAX_ITERATIONS
    /\ iter = 0
    /\ before = input
    /\ calls = 0
    /\ file = Missing
    /\ tmp = Missing
    /\ call = [s \in Sessions |-> Idle]
    /\ log = <<>>
    /\ ops = 0
    /\ fd = [s \in Sessions |-> "none"]
    /\ NoExtraction

----------------------------------------------------------------------------
(* Operations *)

\* the caller's row after apply_double_stackable gave outcome o
DoubleStackableOutcome(o) ==
    /\ row' = o.row
    /\ exc' = o.exc
    /\ pc' = IF o.exc = "none" THEN "enter" ELSE "raised"

\* the caller applies the double-stackable adjustment before the loop
DoubleStackable ==
    /\ pc = "start"
    /\ flag
    /\ DoubleStackableOutcome(apply_double_stackable(row))
    /\ UNCHANGED <<input, flag, entry, arg, cap, iter, before, calls>>
    /\ UNCHANGED <<store, extraction>>

\* apply_packaging_math(row, n) up to the first `before = dict(row)`
ApmEnter(n) ==
    /\ \/ pc = "enter"
       \/ pc = "start" /\ ~flag
    /\ arg' = row
    /\ cap' = n
    /\ iter' = 0
    /\ IF n > 0
       THEN /\ before' = row
            /\ pc' = "triad"
       ELSE /\ before' = before
            /\ pc' = "returned"
    /\ UNCHANGED <<input, flag, entry, row, exc, calls>>
    /\ UNCHANGED <<store, extraction>>

\* variant of ApmTriad: the double-stackable adjustment is repeated in every
\* iteration of the loop
ApmTriadDoubling ==
    /\ pc = "triad"
    /\ row' = complete_packaging_triad(
                  IF flag THEN apply_double_stackable(row).row ELSE row)
    /\ pc' = "avail"
    /\ UNCHANGED <<input, flag, entry, arg, exc, cap, iter, before, calls>>
    /\ UNCHANGED <<store, extraction>>

\* row = complete_packaging_triad(row)
ApmTriad ==
    /\ pc = "triad"
    /\ row' = complete_packaging_triad(row)
    /\ pc' = "avail"
    /\ UNCHANGED <<input, flag, entry, arg, exc, cap, iter, before, calls>>
    /\ UNCHANGED <<store, extraction>>

\* variant of ApmAvailOutcome: the snapshot comparison is left out, the loop
\* runs until the cap
ApmAvailOutcomeNoBreak(o) ==
    /\ row' = o.row
    /\ exc' = o.exc
    /\ IF o.exc # "none"
       THEN /\ pc' = "raised"
            /\ UNCHANGED <<iter, before>>
       ELSE /\ iter' = iter + 1
            /\ IF iter + 1 >= cap
               THEN /\ pc' = "returned"
                    /\ before' = before
               ELSE /\ pc' = "triad"
                    /\ before' = o.row

\* lines 164-169 once complete_availability gave outcome o
ApmAvailOutcome(o) ==
    /\ row' = o.row
    /\ exc' = o.exc
    /\ IF o.exc # "none"
       THEN /\ pc' = "raised"
            /\ UNCHANGED <<iter, before>>
       ELSE /\ iter' = iter + 1
            /\ IF DictEq(o.row, before) \/ iter + 1 >= cap
               THEN /\ pc' = "returned"
                    /\ before' = before
               ELSE /\ pc' = "triad"
                    /\ before' = o.row

\* row = complete_availability(row); the snapshot test; the next `before`
ApmAvail ==
    /\ pc = "avail"
    /\ ApmAvailOutcome(complete_availability(row))
    /\ UNCHANGED <<input, flag, entry, arg, cap, calls>>
    /\ UNCHANGED <<store, extraction>>

\* the caller hands the returned record to the engine once more
NextPass ==
    /\ pc = "returned"
    /\ calls + 1 < MaxCalls
    /\ calls' = calls + 1
    /\ entry' = row
    /\ pc' = "start"
    /\ UNCHANGED <<input, flag, arg, row, exc, cap, iter, before>>
    /\ UNCHANGED <<store, extraction>>

Next ==
    \/ DoubleStackable
    \/ ApmEnter(DEFAULT_MAX_ITERATIONS)
    \/ ApmTriad
    \/ ApmAvail
    \/ NextPass

Spec == Init /\ [][Next]_vars

\* apply_packaging_math alone, called once with a cap of the caller's choice
CapInit == Init /\ ~flag

CapNext ==
    \/ \E n \in Caps : ApmEnter(n)
    \/ ApmTriad
    \/ ApmAvail

CapSpec == CapInit /\ [][CapNext]_vars

\* the caps up to the default one, and two a caller should not pass: 0 and -1
LowCaps == {-1} \cup (0 .. DEFAULT_MAX_ITERATIONS)

\* apply_packaging_math alone, called once with a cap up to the default
DriverNext ==
    \/ \E n \in LowCaps : ApmEnter(n)
    \/ ApmTriad
    \/ ApmAvail

DriverSpec == CapInit /\ [][DriverNext]_vars

----------------------------------------------------------------------------
(* Article-number operations *)

\* what a call that ended gave its caller
Entry(op, a, e, out) == [op |-> op, arg |-> a, exc |-> e, out |-> out]

\* the call of session s ends with e
Return(s, e) ==
    /\ call' = [call EXCEPT ![s] = Idle]
    /\ log' = Append(log, e)

\* variant of AllocateLoaded: the counter to save is advanced by one, not by
\* count
AllocateLoadedAdvanceOne(s, count, st) ==
    IF ~ValidCount(count) \/ st.exc # "none"
    THEN Return(s, Entry("allocate", count, "ArticleNumberError", <<>>))
    ELSE /\ call' = [call EXCEPT ![s] =
                        [pc |-> "saving", op |-> "allocate", arg |-> count,
                         next_value |-> IntOf(st.val) + 1,
                         allocated |-> FormatRange(IntOf(st.val), IntOf(count))]]
         /\ log' = log

\* allocate, lines 85-92, with st = _load_state(state_path, cfg)
AllocateLoaded(s, count, st) ==
    IF ~ValidCount(count) \/ st.exc # "none"
    THEN Return(s, Entry("allocate", count, "ArticleNumberError", <<>>))
    ELSE /\ call' = [call EXCEPT ![s] =
                        [pc |-> "saving", op |-> "allocate", arg |-> count,
                         next_value |-> IntOf(st.val) + IntOf(count),
                         allocated |-> FormatRange(IntOf(st.val), IntOf(count))]]
         /\ log' = log

\* allocate(count) up to the call of _save_state
AllocateBegin(s, count) ==
    /\ call[s].pc = "idle"
    /\ ops < MaxOps
    /\ ops' = ops + 1
    /\ AllocateLoaded(s, count, _load_state(file))
    /\ UNCHANGED <<file, tmp, fd>>
    /\ UNCHANGED <<engine, extraction>>

\* peek_next, with st = _load_state(state_path, cfg)
PeekLoaded(s, st) ==
    IF st.exc # "none"
    THEN Return(s, Entry("peek_next", None, st.exc, <<>>))
    ELSE Return(s, Entry("peek_next", None, "none",
                         <<format_article_number(IntOf(st.val)).val>>))

\* a peek that also stores the counter after the number it returned
PeekAndStore(s, st) ==
    /\ PeekLoaded(s, st)
    /\ file' = IF st.exc = "none" THEN Doc(JsonNumber(IntOf(st.val) + 1)) ELSE file

\* variant of PeekNext: the number peeked at is consumed
PeekNextConsuming(s) ==
    /\ call[s].pc = "idle"
    /\ ops < MaxOps
    /\ ops' = ops + 1
    /\ PeekAndStore(s, _load_state(file))
    /\ UNCHANGED <<tmp, fd>>
    /\ UNCHANGED <<engine, extraction>>

PeekNext(s) ==
    /\ call[s].pc = "idle"
    /\ ops < MaxOps
    /\ ops' = ops + 1
    /\ PeekLoaded(s, _load_state(file))
    /\ UNCHANGED <<file, tmp, fd>>
    /\ UNCHANGED <<engine, extraction>>

\* reset(start_value) up to the call of _save_state
ResetBegin(s, start_value) ==
    /\ call[s].pc = "idle"
    /\ ops < MaxOps
    /\ ops' = ops + 1
    /\ IF IntOf(start_value) < 0
       THEN Return(s, Entry("reset", start_value, "ArticleNumberError", <<>>))
       ELSE /\ call' = [call EXCEPT ![s] =
                           [pc |-> "saving", op |-> "reset", arg |-> start_value,
                            next_value |-> IntOf(start_value), allocated |-> <<>>]]
            /\ log' = log
    /\ UNCHANGED <<file, tmp, fd>>
    /\ UNCHANGED <<engine, extraction>>

\* _save_state: tmp_path.write_text(json.dumps(payload))
SaveWriteTmp(s) ==
    /\ call[s].pc = "saving"
    /\ tmp' = Doc(JsonNumber(call[s].next_value))
    /\ call' = [call EXCEPT ![s].pc = "written"]
    /\ UNCHANGED <<file, log, ops, fd>>
    /\ UNCHANGED <<engine, extraction>>

\* _save_state: tmp_path.replace(state_path), then the call returns; the
\* rename fails when another session's rename already took the temporary file
SaveReplace(s) ==
    /\ call[s].pc = "written"
    /\ IF tmp = Missing
       THEN /\ UNCHANGED <<file, tmp>>
            /\ Return(s, Entry(call[s].op, call[s].arg, "FileNotFoundError", <<>>))
       ELSE /\ file' = tmp
            /\ tmp' = Missing
            /\ Return(s, Entry(call[s].op, call[s].arg, "none", call[s].allocated))
    /\ UNCHANGED <<ops, fd>>
    /\ UNCHANGED <<engine, extraction>>

\* the engine plays no part: one blank record, never processed
AllocInit ==
    /\ input = BlankRow
    /\ flag = FALSE
    /\ entry = BlankRow
    /\ arg = BlankRow
    /\ row = BlankRow
    /\ pc = "start"
    /\ exc = "none"
    /\ cap = DEFAULT_MAX_ITERATIONS
    /\ iter = 0
    /\ before = BlankRow
    /\ calls = 0
    /\ file \in InitialFiles
    /\ tmp = Missing
    /\ call = [s \in Sessions |-> Idle]
    /\ log = <<>>
    /\ ops = 0
    /\ fd = [s \in Sessions |-> "none"]
    /\ NoExtraction

\* sessions call at any time: their file operations interleave
AllocNext ==
    \E s \in Sessions :
        \/ \E count \in CountValues : AllocateBegin(s, count)
        \/ PeekNext(s)
        \/ \E v \in ResetValues : ResetBegin(s, v)
        \/ SaveWriteTmp(s)
        \/ SaveReplace(s)

AllocSpec == AllocInit /\ [][AllocNext]_vars

\* no other session has a call in progress
Alone(s) == \A t \in Sessions \ {s} : call[t].pc = "idle"

\* calls do not overlap: a call begins only when no other is in progress
SerialNext ==
    \E s \in Sessions :
        \/ \E count \in CountValues : Alone(s) /\ AllocateBegin(s, count)
        \/ Alone(s) /\ PeekNext(s)
        \/ \E v \in ResetValues : Alone(s) /\ ResetBegin(s, v)
        \/ SaveWriteTmp(s)
        \/ SaveReplace(s)

SerialSpec == AllocInit /\ [][SerialNext]_vars

\* what a file holds after text new is written from its start over content
\* old: a longer old text leaves its tail behind
Overwritten(old, new) ==
    IF old.k = "doc" /\ Len(old.tok) > Len(new.tok) THEN Garbage ELSE new

\* _save_state, write_text: the temporary file is opened for writing, which
\* creates it or empties it
SaveOpen(s) ==
    /\ call[s].pc = "saving"
    /\ tmp' = Garbage
    /\ fd' = [fd EXCEPT ![s] = "tmp"]
    /\ call' = [call EXCEPT ![s].pc = "opened"]
    /\ UNCHANGED <<file, log, ops>>
    /\ UNCHANGED <<engine, extraction>>

\* _save_state, write_text: the text is written into the open file, under
\* whatever name that file has by now, and the file is closed
SaveWrite(s) ==
    /\ call[s].pc = "opened"
    /\ tmp' = IF fd[s] = "tmp"
              THEN Overwritten(tmp, Doc(JsonNumber(call[s].next_value)))
              ELSE tmp
    /\ file' = IF fd[s] = "file"
               THEN Overwritten(file, Doc(JsonNumber(call[s].next_value)))
               ELSE file
    /\ fd' = [fd EXCEPT ![s] = "none"]
    /\ call' = [call EXCEPT ![s].pc = "written"]
    /\ UNCHANGED <<log, ops>>
    /\ UNCHANGED <<engine, extraction>>

\* where an open file is after the temporary file was renamed to the state
\* file
Renamed(where) ==
    CASE where = "tmp" -> "file"
      [] where = "file" -> "unlinked"
      [] OTHER -> where

\* _save_state: tmp_path.replace(state_path), then the call returns
SaveRename(s) ==
    /\ call[s].pc = "written"
    /\ IF tmp = Missing
       THEN /\ UNCHANGED <<file, tmp, fd>>
            /\ Return(s, Entry(call[s].op, call[s].arg, "FileNotFoundError", <<>>))
       ELSE /\ file' = tmp
            /\ tmp' = Missing
            /\ fd' = [t \in Sessions |-> Renamed(fd[t])]
            /\ Return(s, Entry(call[s].op, call[s].arg, "none", call[s].allocated))
    /\ UNCHANGED ops
    /\ UNCHANGED <<engine, extraction>>

\* the process of session s dies inside _save_state: its open file is closed
\* as it is, nothing else happens
Crash(s) ==
    /\ call[s].pc \in {"saving", "opened", "written"}
    /\ fd' = [fd EXCEPT ![s] = "none"]
    /\ Return(s, Entry(call[s].op, call[s].arg, "crash", <<>>))
    /\ UNCHANGED <<file, tmp, ops>>
    /\ UNCHANGED <<engine, extraction>>

\* sessions call at any time and may die while saving; write_text is two
\* steps
CrashNext ==
    \E s \in Sessions :
        \/ \E count \in CountValues : AllocateBegin(s, count)
        \/ PeekNext(s)
        \/ \E v \in ResetValues : ResetBegin(s, v)
        \/ SaveOpen(s)
        \/ SaveWrite(s)
        \/ SaveRename(s)
        \/ Crash(s)

CrashSpec == AllocInit /\ [][CrashNext]_vars

----------------------------------------------------------------------------
(* Operations of the chunked extraction *)

\* the rows of the chunk call under way: all rows, or chunk chunk_no
CurrentChunk ==
    IF Len(rows) <= chunk_size THEN rows ELSE ChunkAt(rows, chunk_size, chunk_no)

\* process_excel_in_chunks raises e
Raise(e) ==
    /\ xpc' = "raised"
    /\ outcome' = [exc |-> e, val |-> <<>>]
    /\ UNCHANGED <<chunk_no, all_products, results>>

\* lines 190-191 and 203-206: a chunk call returned products
ChunkReturned(products) ==
    /\ results' = Append(results, products)
    /\ IF Len(rows) <= chunk_size
       THEN /\ xpc' = "returned"
            /\ outcome' = [exc |-> "none", val |-> products]
            /\ UNCHANGED <<chunk_no, all_products>>
       ELSE /\ all_products' = all_products \o products
            /\ IF chunk_no + 1 < NumChunks(Len(rows), chunk_size)
               THEN /\ xpc' = "call"
                    /\ chunk_no' = chunk_no + 1
                    /\ outcome' = outcome
               ELSE /\ xpc' = "returned"
                    /\ chunk_no' = chunk_no
                    /\ outcome' = [exc |-> "none", val |-> all_products \o products]

\* lines 135-147: the turn of the loop with retry = n on text raw, where
\* a = AfterParse(raw, n) and count parses were made before
ParseLoopStep(a, raw, n, count) ==
    /\ raw_output' = raw
    /\ retry' = n
    /\ parses' = count + 1
    /\ CASE a.to = "done" -> ChunkReturned(a.products)
         [] a.to = "raise" -> Raise("ValueError")
         [] OTHER -> /\ xpc' = "repair"
                     /\ UNCHANGED <<chunk_no, all_products, outcome, results>>

\* lines 131-135: the reply to the extraction request, count parses made
FirstReply(raw, count) ==
    IF raw.k = "none"
    THEN /\ raw_output' = raw
         /\ retry' = 0
         /\ parses' = count
         /\ Raise("ValueError")
    ELSE ParseLoopStep(AfterParse(raw, 0), raw, 0, count)

\* variant of ProcessBegin: the size is looked at only on the chunked path
ProcessBeginCheckLate ==
    /\ xpc = "start"
    /\ IF Len(rows) = 0
       THEN /\ xpc' = "returned"
            /\ outcome' = [exc |-> "none", val |-> <<>>]
       ELSE IF Len(rows) > chunk_size /\ JsonChars(rows) > MAX_TEXT_CHARS_BEFORE_LLM
       THEN /\ xpc' = "raised"
            /\ outcome' = [exc |-> "ValueError", val |-> <<>>]
       ELSE /\ xpc' = "call"
            /\ outcome' = outcome
    /\ UNCHANGED <<rows, chunk_size, chunk_no, all_products, raw_output, retry,
                   sent, results, requests, parses, repairs>>
    /\ UNCHANGED <<engine, store>>

\* process_excel_in_chunks, lines 176-190: up to the first chunk call
ProcessBegin ==
    /\ xpc = "start"
    /\ IF Len(rows) = 0
       THEN /\ xpc' = "returned"
            /\ outcome' = [exc |-> "none", val |-> <<>>]
       ELSE IF JsonChars(rows) > MAX_TEXT_CHARS_BEFORE_LLM
       THEN /\ xpc' = "raised"
            /\ outcome' = [exc |-> "ValueError", val |-> <<>>]
       ELSE /\ xpc' = "call"
            /\ outcome' = outcome
    /\ UNCHANGED <<rows, chunk_size, chunk_no, all_products, raw_output, retry,
                   sent, results, requests, parses, repairs>>
    /\ UNCHANGED <<engine, store>>

\* _call_llm_extraction_for_chunk, lines 100-120: the extraction request, and
\* what follows its reply (lines 131-147) up to the next request
FirstRequest ==
    /\ xpc = "call"
    /\ requests' = requests + 1
    /\ sent' = Append(sent, IdsOf(CurrentChunk))
    /\ repairs' = 0
    /\ \E o \in Outcomes(CurrentChunk) :
          IF o = Failure
          THEN /\ xpc' = "fallback"
               /\ raw_output' = NoReply
               /\ retry' = 0
               /\ parses' = 0
               /\ UNCHANGED <<chunk_no, all_products, outcome, results>>
          ELSE FirstReply(o, 0)
    /\ UNCHANGED <<rows, chunk_size>>
    /\ UNCHANGED <<engine, store>>

\* lines 121-130: the same request without response_format, after the first
\* one raised
FallbackRequest ==
    /\ xpc = "fallback"
    /\ requests' = requests + 1
    /\ \E o \in Outcomes(CurrentChunk) :
          IF o = Failure
          THEN /\ Raise("APIError")
               /\ UNCHANGED <<raw_output, retry, parses>>
          ELSE FirstReply(o, parses)
    /\ UNCHANGED <<rows, chunk_size, sent, repairs>>
    /\ UNCHANGED <<engine, store>>

\* lines 149-164: the repair request, and the next turn of the loop on its
\* reply
RepairRequest ==
    /\ xpc = "repair"
    /\ requests' = requests + 1
    /\ repairs' = repairs + 1
    /\ \E o \in Outcomes(CurrentChunk) :
          IF o = Failure
          THEN /\ Raise("APIError")
               /\ UNCHANGED <<raw_output, retry, parses>>
          ELSE ParseLoopStep(AfterParse(o, retry + 1), o, retry + 1, parses)
    /\ UNCHANGED <<rows, chunk_size, sent>>
    /\ UNCHANGED <<engine, store>>

\* one sheet is processed; engine and article numbers play no part
ExtractInit ==
    /\ input = BlankRow
    /\ flag = FALSE
    /\ entry = BlankRow
    /\ arg = BlankRow
    /\ row = BlankRow
    /\ pc = "start"
    /\ exc = "none"
    /\ cap = DEFAULT_MAX_ITERATIONS
    /\ iter = 0
    /\ before = BlankRow
    /\ calls = 0
    /\ file = Missing
    /\ tmp = Missing
    /\ call = [s \in Sessions |-> Idle]
    /\ log = <<>>
    /\ ops = 0
    /\ fd = [s \in Sessions |-> "none"]
    /\ \E n \in 0 .. MaxRows : \E w \in RowChars : rows = ExcelRows(n, w)
    /\ chunk_size \in ChunkSizes
    /\ xpc = "start"
    /\ chunk_no = 0
    /\ all_products = <<>>
    /\ raw_output = NoReply
    /\ retry = 0
    /\ outcome = NoOutcome
    /\ sent = <<>>
    /\ results = <<>>
    /\ requests = 0
    /\ parses = 0
    /\ repairs = 0

ExtractNext ==
    \/ ProcessBegin
    \/ FirstRequest
    \/ FallbackRequest
    \/ RepairRequest

ExtractSpec == ExtractInit /\ [][ExtractNext]_vars

----------------------------------------------------------------------------
(* Vocabulary of the properties *)

\* the number a field value denotes (native number, or text with a decimal
\* point or comma), as a float; NaN when it denotes none
Denotes(v) ==
    CASE v.t = "int" -> Fin(v.n, 1)
      [] v.t = "float" -> v.f
      [] v.t = "str" ->
            LET p == ParseFloat(ReplaceComma(Strip(v.s)))
            IN  IF p = None THEN NaN ELSE p.f
      [] OTHER -> NaN

\* a valid positive number: coercion gives a finite value greater than zero
ValidPositive(v) == Denotes(v).k = "fin" /\ Denotes(v).n > 0

\* a finite number that is zero or negative
NonPositive(v) == Denotes(v).k = "fin" /\ Denotes(v).n <= 0

\* populated, but not with anything that reads as a number (text, boolean)
NonNumeric(v) ==
    \/ v.t = "bool"
    \/ v.t = "str" /\ ParseFloat(ReplaceComma(Strip(v.s))) = None

\* the integer ceil(x) of a finite float
CeilOf(x) == PyInt(CeilDiv(x.n, x.d))

\* the value a populated field may hold after a step that did not derive it:
\* itself, its ceiling as an integer, or nothing if it was not a number
Kept(old, new) ==
    \/ new = old
    \/ ValidPositive(old) /\ new = CeilOf(Denotes(old))
    \/ NonNumeric(old) /\ new = None

Populated(r) == {k \in NumericFields : r[k] # None}

----------------------------------------------------------------------------
(* C1 - Authority *)

\* C1: a field that held a valid positive number when apply_packaging_math
\* was called holds the same number when it returns (an availability field:
\* its ceiling), and no step of the loop derives into a populated field.
C1_Authority ==
    /\ [](pc = "returned" =>
            /\ \A k \in TriadFields : ValidPositive(arg[k]) => row[k] = arg[k]
            /\ \A k \in AvailFields :
                  ValidPositive(arg[k]) => row[k] = CeilOf(Denotes(arg[k])))
    /\ [][pc = "triad" => \A k \in TriadFields : row[k] # None => row'[k] = row[k]]_vars
    /\ [][pc = "avail" => \A k \in AvailFields : row[k] # None => Kept(row[k], row'[k])]_vars

\* a call returned with every field populated on entry and nothing derived
C1_Witness ==
    /\ pc = "returned"
    /\ calls = 0
    /\ Populated(arg) = NumericFields
    /\ arg["availability_pieces"] = Chars(<<"2", ",", "5">>)
    /\ row["availability_pieces"] = PyInt(3)
    /\ arg["pieces_per_pallet"] = PyInt(10)
    /\ row["pieces_per_pallet"] = PyInt(10)

----------------------------------------------------------------------------
(* C2 - Non-negativity *)

\* C2: in every record apply_packaging_math returns, each availability field
\* is absent or a positive integer >= 1.
C2_NonNegativity ==
    pc = "returned" =>
        \A k \in AvailFields : row[k] = None \/ (row[k].t = "int" /\ row[k].n >= 1)

----------------------------------------------------------------------------
(* C3 - Idempotence *)

\* C3: without the double-stackable flag, apply_packaging_math applied to its
\* own output returns that output unchanged.
C3_Idempotence ==
    (pc = "returned" /\ ~flag /\ calls = 1) => row = arg

\* the second call returned, on a record the first call had changed
C3_Witness ==
    /\ pc = "returned"
    /\ ~flag
    /\ calls = 1
    /\ input["availability_cartons"] = Chars(<<"n", "/", "a">>)
    /\ input["availability_pieces"] = PyInt(130)
    /\ arg["availability_cartons"] = PyInt(11)
    /\ arg["pieces_per_pallet"] # input["pieces_per_pallet"]

----------------------------------------------------------------------------
(* C4 - Triad consistency *)

\* C4: when exactly two triad fields are valid positive numbers and the third
\* is absent on entry, the returned record holds the third as the exact,
\* unrounded value: C = A*B, B = C/A, A = C/B.
C4_TriadConsistency ==
    pc = "returned" =>
        LET A == arg["piece_per_case"]
            B == arg["case_per_pallet"]
            C == arg["pieces_per_pallet"]
        IN  /\ (ValidPositive(A) /\ ValidPositive(B) /\ C = None) =>
                  row["pieces_per_pallet"] = PyFloat(FMul(Denotes(A), Denotes(B)))
            /\ (ValidPositive(A) /\ ValidPositive(C) /\ B = None) =>
                  row["case_per_pallet"] = PyFloat(FDiv(Denotes(C), Denotes(A)))
            /\ (ValidPositive(B) /\ ValidPositive(C) /\ A = None) =>
                  row["piece_per_case"] = PyFloat(FDiv(Denotes(C), Denotes(B)))

\* 10 pieces per pallet in cases of 12: 5/6 of a case per pallet
C4_Witness ==
    /\ pc = "returned"
    /\ arg["piece_per_case"] = PyInt(12)
    /\ arg["pieces_per_pallet"] = PyInt(10)
    /\ arg["case_per_pallet"] = None
    /\ row["case_per_pallet"] = Rat(5, 6)

----------------------------------------------------------------------------
(* C5 - Monotonic completion *)

----------------------------------------------------------------------------
(* C6 - No exception escapes *)

\* C6: neither apply_double_stackable nor apply_packaging_math raises,
\* whatever the field values are.
C6_NoExceptionEscapes == pc # "raised" /\ exc = "none"

----------------------------------------------------------------------------
(* C7 - Scenario D: zero is invalid *)

\* C7: with availability_pieces zero or negative, a valid piece_per_case and
\* no cartons or pallets given, the returned record has availability_pieces
\* and availability_cartons absent.
C7_ZeroIsInvalid ==
    ( /\ pc = "returned"
      /\ NonPositive(arg["availability_pieces"])
      /\ ValidPositive(arg["piece_per_case"])
      /\ arg["availability_cartons"] = None
      /\ arg["availability_pallets"] = None )
    => (row["availability_pieces"] = None /\ row["availability_cartons"] = None)

----------------------------------------------------------------------------
(* C8 - Forward derivation *)

\* C8: whenever complete_availability starts with availability_pieces a valid
\* positive number, an absent availability_cartons becomes
\* ceil(pieces / piece_per_case) if piece_per_case is valid positive, and an
\* absent availability_pallets becomes ceil(pieces / pieces_per_pallet) if
\* pieces_per_pallet (as left by the triad completion just before) is valid
\* positive.
C8_ForwardDerivation ==
    [][(pc = "avail" /\ ValidPositive(row["availability_pieces"])) =>
          LET pieces == Denotes(row["availability_pieces"])
              ppc == row["piece_per_case"]
              ppp == row["pieces_per_pallet"]
          IN  /\ (row["availability_cartons"] = None /\ ValidPositive(ppc)) =>
                    row'["availability_cartons"] = CeilOf(FDiv(pieces, Denotes(ppc)))
              /\ (row["availability_pallets"] = None /\ ValidPositive(ppp)) =>
                    row'["availability_pallets"] = CeilOf(FDiv(pieces, Denotes(ppp)))]_vars

\* 130 pieces in cases of 12, 10 cases per pallet: 11 cartons, and 2 pallets
\* by the pieces_per_pallet derived in the same pass
C8_Witness ==
    /\ pc = "returned"
    /\ arg["availability_pieces"] = PyInt(130)
    /\ arg["piece_per_case"] = PyInt(12)
    /\ arg["case_per_pallet"] = PyInt(10)
    /\ arg["pieces_per_pallet"] = None
    /\ arg["availability_cartons"] = None
    /\ arg["availability_pallets"] = None
    /\ row["availability_cartons"] = PyInt(11)
    /\ row["availability_pallets"] = PyInt(2)

----------------------------------------------------------------------------
(* C9 - Reverse derivation *)

\* C9: complete_availability derives availability_pieces only when it is
\* absent; with cartons and piece_per_case valid positive it becomes
\* ceil(cartons * piece_per_case), also when pallets and pieces_per_pallet are
\* valid; it comes from ceil(pallets * pieces_per_pallet) only when the
\* cartons route is not available.
C9_ReverseDerivation ==
    [][pc = "avail" =>
          LET pieces == row["availability_pieces"]
              cartons == row["availability_cartons"]
              pallets == row["availability_pallets"]
              ppc == row["piece_per_case"]
              ppp == row["pieces_per_pallet"]
              viaCartons == ValidPositive(cartons) /\ ValidPositive(ppc)
              viaPallets == ValidPositive(pallets) /\ ValidPositive(ppp)
          IN  /\ pieces # None => Kept(pieces, row'["availability_pieces"])
              /\ (pieces = None /\ viaCartons) =>
                    row'["availability_pieces"] =
                        CeilOf(FMul(Denotes(cartons), Denotes(ppc)))
              /\ (pieces = None /\ ~viaCartons /\ row'["availability_pieces"] # None) =>
                    /\ viaPallets
                    /\ row'["availability_pieces"] =
                          CeilOf(FMul(Denotes(pallets), Denotes(ppp)))]_vars

\* both routes open and disagreeing: 5 cartons of 12 win over 2 pallets of 120
C9_Witness ==
    /\ pc = "returned"
    /\ arg["availability_pieces"] = None
    /\ arg["availability_cartons"] = PyInt(5)
    /\ arg["piece_per_case"] = PyInt(12)
    /\ arg["availability_pallets"] = PyInt(2)
    /\ arg["pieces_per_pallet"] = PyInt(120)
    /\ row["availability_pieces"] = PyInt(60)

----------------------------------------------------------------------------
(* C10 - Double-stackable adjustment *)

\* C10: a returning apply_double_stackable turns every availability field
\* holding a valid positive number v into the integer ceil(2*v), leaves every
\* absent availability field absent, and changes no other field.
C10_DoubleStackable ==
    [][(pc = "start" /\ pc' = "enter") =>
          /\ \A k \in AvailFields :
                /\ ValidPositive(row[k]) =>
                      row'[k] = CeilOf(FMul(Fin(2, 1), Denotes(row[k])))
                /\ row[k] = None => row'[k] = None
          /\ \A k \in TriadFields \cup OpaqueFields : row'[k] = row[k]]_vars

\* 2,5 pieces double to 5 (not 6), 5 cartons to 10, absent pallets stay absent
C10_Witness ==
    /\ pc = "enter"
    /\ entry["availability_pieces"] = Chars(<<"2", ",", "5">>)
    /\ row["availability_pieces"] = PyInt(5)
    /\ entry["availability_cartons"] = PyInt(5)
    /\ row["availability_cartons"] = PyInt(10)
    /\ entry["availability_pallets"] = None
    /\ row["availability_pallets"] = None
    /\ entry["piece_per_case"] = PyInt(12)

----------------------------------------------------------------------------
(* C11 - Ordering of doubling and derivation *)

\* the integer the double-stackable adjustment leaves for a valid positive v
Doubled(v) == CeilOf(FMul(Fin(2, 1), Denotes(v)))

\* C11: with the flag set, from the end of apply_double_stackable until
\* apply_packaging_math returns, every availability field that was a valid
\* positive number v in the input holds ceil(2*v) (doubled once, however many
\* iterations run); in the returned record a field that was absent in the
\* input and is now populated is the derivation from those doubled values
\* (pieces = ceil(cartons * piece_per_case), else ceil(pallets *
\* pieces_per_pallet); cartons and pallets = ceil(pieces / divisor)), not its
\* double.
C11_DoubleThenDerive ==
    (flag /\ calls = 0 /\ pc \in {"enter", "triad", "avail", "returned"}) =>
        /\ \A k \in AvailFields : ValidPositive(input[k]) => row[k] = Doubled(input[k])
        /\ pc = "returned" =>
              LET pieces == row["availability_pieces"]
                  cartons == input["availability_cartons"]
                  pallets == input["availability_pallets"]
                  ppc == row["piece_per_case"]
                  ppp == row["pieces_per_pallet"]
              IN  /\ (input["availability_pieces"] = None /\ pieces # None) =>
                        IF ValidPositive(cartons) /\ ValidPositive(ppc)
                        THEN pieces = CeilOf(FMul(Denotes(Doubled(cartons)), Denotes(ppc)))
                        ELSE /\ ValidPositive(pallets) /\ ValidPositive(ppp)
                             /\ pieces = CeilOf(FMul(Denotes(Doubled(pallets)), Denotes(ppp)))
                  /\ (cartons = None /\ row["availability_cartons"] # None) =>
                        /\ ValidPositive(pieces)
                        /\ row["availability_cartons"] =
                              CeilOf(FDiv(Denotes(pieces), Denotes(ppc)))
                  /\ (pallets = None /\ row["availability_pallets"] # None) =>
                        /\ ValidPositive(pieces)
                        /\ row["availability_pallets"] =
                              CeilOf(FDiv(Denotes(pieces), Denotes(ppp)))

\* Scenario C: 5 cartons of 12 with the flag set give 10 cartons and 120
\* pieces, after a loop of two iterations
C11_Witness ==
    /\ flag
    /\ calls = 0
    /\ pc = "returned"
    /\ iter = 2
    /\ input["availability_cartons"] = PyInt(5)
    /\ input["piece_per_case"] = PyInt(12)
    /\ input["availability_pieces"] = None
    /\ row["availability_cartons"] = PyInt(10)
    /\ row["availability_pieces"] = PyInt(120)

----------------------------------------------------------------------------
(* C12 - Repeated passes with the double-stackable flag *)

\* C12: with the flag set, the whole engine pass (apply_double_stackable, then
\* apply_packaging_math) run a second time on the record it returned returns
\* that record unchanged.
C12_RepeatableWithFlag ==
    (pc = "returned" /\ flag /\ calls = 1) => row = entry

----------------------------------------------------------------------------
(* C13 - No fabrication *)

\* C13: for every returning apply_packaging_math call: if all triad and
\* availability fields were absent on entry, the returned record is the input;
\* an availability field is populated in the returned record only if some
\* availability field was a valid positive number on entry; and a triad field
\* absent on entry is populated only if the two other triad fields were valid
\* positive numbers on entry.
C13_NoFabrication ==
    pc = "returned" =>
        /\ Populated(arg) = {} => row = arg
        /\ \A k \in AvailFields :
              row[k] # None => \E j \in AvailFields : ValidPositive(arg[j])
        /\ \A k \in TriadFields :
              (arg[k] = None /\ row[k] # None) =>
                  \A j \in TriadFields \ {k} : ValidPositive(arg[j])

----------------------------------------------------------------------------
(* C14 - Convergence within the default cap *)

\* C14: whatever cap >= 3 apply_packaging_math is called with, it returns
\* after at most 3 iterations, the last of which changed nothing, and the
\* returned record is a fixed point of one {triad completion, availability
\* derivation} pass; the first three iterations do not depend on the cap, so
\* the record returned with cap 3 is the one returned with any larger cap.
C14_Convergence ==
    pc = "returned" =>
        /\ iter <= DEFAULT_MAX_ITERATIONS
        /\ DictEq(row, before)
        /\ complete_availability(complete_packaging_triad(row)) = Ok(row)

\* non-numeric text in availability_pieces is cleared by the first iteration,
\* pieces and pallets are derived by the second, the third changes nothing
C14_Witness ==
    /\ pc = "returned"
    /\ cap = DEFAULT_MAX_ITERATIONS
    /\ iter = DEFAULT_MAX_ITERATIONS
    /\ arg["availability_pieces"] = Chars(<<"n", "/", "a">>)
    /\ arg["availability_pallets"] = None
    /\ row["availability_pieces"] = PyInt(60)
    /\ row["availability_pallets"] = PyInt(1)

----------------------------------------------------------------------------
(* Vocabulary of the article-number properties *)

\* the integer an article number spells after its prefix
ArticleValue(a) == DigitsToInt(SubSeq(a, Len(prefix) + 1, Len(a)))

\* the prefix, then at least `width` digits
WellFormed(a) ==
    /\ Len(a) >= Len(prefix) + width
    /\ SubSeq(a, 1, Len(prefix)) = prefix
    /\ AllDigits(SubSeq(a, Len(prefix) + 1, Len(a)))

\* the article number of start_next
FirstArticle == <<"A", "C", "0", "0", "0", "0", "1", "0", "0", "0">>

\* the state file holds no usable counter: it is missing, unparsable, of the
\* wrong shape, or its "next" is not a non-negative integer
NoCounter(f) ==
    \/ f.k # "doc"
    \/ JsonValue(f.tok).t \notin {"int", "bool"}
    \/ IntOf(JsonValue(f.tok)) < 0

\* the persisted counter: the file's "next", or start_next without a file
CounterOf(f) == IF f.k = "doc" THEN IntOf(JsonValue(f.tok)) ELSE start_next

\* a call that returned
Granted(e, op) == e.op = op /\ e.exc = "none"

\* the calls in the log that moved the counter: index set
Movers == {i \in 1..Len(log) : Granted(log[i], "allocate") \/ Granted(log[i], "reset")}

\* entry j is the first call after entry i that moved the counter
NextMover(i, j) == i < j /\ j \in Movers /\ \A m \in Movers : ~(i < m /\ m < j)

\* non-integer or <= 0
InvalidCount(c) == c.t \notin {"int", "bool"} \/ IntOf(c) <= 0

\* session s ends an allocate call in this step
AllocateEnds(s) ==
    call[s].pc = "written" /\ call[s].op = "allocate" /\ call'[s].pc = "idle"

----------------------------------------------------------------------------
(* C15 - Sequential allocation *)

\* C15: when calls do not overlap, every allocate(count) that returns gives
\* exactly count well-formed article numbers, consecutive, the first being
\* the persisted counter (start_next = 1000 when there is no state file), and
\* leaves the counter advanced by count; an allocate that follows another
\* with no reset in between starts right after the other's last number, so
\* no number is returned twice and none is skipped.
C15_SequentialAllocation ==
    /\ [](\A i \in 1..Len(log) :
            Granted(log[i], "allocate") =>
                /\ Len(log[i].out) = IntOf(log[i].arg)
                /\ \A n \in 1..Len(log[i].out) : WellFormed(log[i].out[n])
                /\ \A n \in 1..(Len(log[i].out) - 1) :
                      ArticleValue(log[i].out[n + 1]) = ArticleValue(log[i].out[n]) + 1)
    /\ [](\A i, j \in 1..Len(log) :
            ( /\ Granted(log[i], "allocate")
              /\ Granted(log[j], "allocate")
              /\ NextMover(i, j) )
            => ArticleValue(log[j].out[1]) =
                  ArticleValue(log[i].out[Len(log[i].out)]) + 1)
    /\ [][\A s \in Sessions :
            AllocateEnds(s) =>
                /\ Granted(log'[Len(log')], "allocate")
                /\ ArticleValue(log'[Len(log')].out[1]) = CounterOf(file)
                /\ file = Missing => log'[Len(log')].out[1] = FirstArticle
                /\ CounterOf(file') = CounterOf(file) + IntOf(call[s].arg)]_vars

\* no state file: allocate(2) gave AC00001000 and AC00001001, a peek, then
\* allocate(1) gave AC00001002 and the counter is 1003
C15_Witness ==
    /\ Len(log) = 3
    /\ Granted(log[1], "allocate")
    /\ log[1].out = <<FirstArticle, <<"A", "C", "0", "0", "0", "0", "1", "0", "0", "1">>>>
    /\ log[2].op = "peek_next"
    /\ Granted(log[3], "allocate")
    /\ log[3].out = << <<"A", "C", "0", "0", "0", "0", "1", "0", "0", "2">> >>
    /\ file = Doc(<<"1", "0", "0", "3">>)

----------------------------------------------------------------------------
(* C16 - Only allocate and reset move the counter *)

\* C16: when calls do not overlap, the state file changes only in the step
\* that ends a returning allocate or reset; a peek_next leaves it unchanged
\* and the number it returns is the first number of the next allocate that
\* returns (no reset in between); an allocate with a count that is not an
\* integer or is <= 0 raises ArticleNumberError and leaves it unchanged.
C16_CounterFrame ==
    /\ [][file' # file =>
            \E s \in Sessions :
                /\ call[s].pc = "written"
                /\ call[s].op \in {"allocate", "reset"}
                /\ log' = Append(log, Entry(call[s].op, call[s].arg, "none", call[s].allocated))]_vars
    /\ [][(Len(log') > Len(log) /\ log'[Len(log')].op = "peek_next") => file' = file]_vars
    /\ [](\A i, j \in 1..Len(log) :
            ( /\ Granted(log[i], "peek_next")
              /\ Granted(log[j], "allocate")
              /\ NextMover(i, j) )
            => log[j].out[1] = log[i].out[1])
    /\ [][( /\ Len(log') > Len(log)
            /\ log'[Len(log')].op = "allocate"
            /\ InvalidCount(log'[Len(log')].arg) )
          => (log'[Len(log')].exc = "ArticleNumberError" /\ file' = file)]_vars

\* a peek, a rejected allocate(0), then allocate(1) returning the number the
\* peek announced
C16_Witness ==
    /\ Len(log) = 3
    /\ Granted(log[1], "peek_next")
    /\ log[1].out = <<FirstArticle>>
    /\ log[2] = Entry("allocate", PyInt(0), "ArticleNumberError", <<>>)
    /\ Granted(log[3], "allocate")
    /\ log[3].out = <<FirstArticle>>
    /\ file = Doc(<<"1", "0", "0", "1">>)

----------------------------------------------------------------------------
(* C17 - Atomic allocation *)

\* the article numbers session s is about to return
Holding(s) ==
    IF call[s].op = "allocate"
    THEN {call[s].allocated[n] : n \in 1..Len(call[s].allocated)}
    ELSE {}

\* C17: two allocate calls in progress at the same time hold disjoint sets of
\* article numbers, and an allocate call ends by returning, with the counter
\* advanced by its count from where it stood when the call ended (so two
\* overlapping calls advance it by the sum of their counts).
C17_AtomicAllocation ==
    /\ [](\A s, t \in Sessions : s # t => Holding(s) \cap Holding(t) = {})
    /\ [][\A s \in Sessions :
            AllocateEnds(s) =>
                /\ Granted(log'[Len(log')], "allocate")
                /\ CounterOf(file') = CounterOf(file) + IntOf(call[s].arg)]_vars

----------------------------------------------------------------------------
(* C18 - Missing or unreadable state *)

\* C18: when the state file is missing or holds no usable counter, a
\* peek_next returns the article number of start_next and an allocate with a
\* valid count proceeds from start_next; neither raises.
C18_StartsFromStartNext ==
    [][(NoCounter(file) /\ ops' = ops + 1) =>
          /\ (Len(log') > Len(log) /\ log'[Len(log')].op = "peek_next") =>
                log'[Len(log')] = Entry("peek_next", None, "none", <<FirstArticle>>)
          /\ (Len(log') > Len(log) /\ log'[Len(log')].op = "allocate") =>
                InvalidCount(log'[Len(log')].arg)
          /\ \A s \in Sessions :
                (call[s].pc = "idle" /\ call'[s].op = "allocate") =>
                    call'[s].allocated[1] = FirstArticle]_vars

----------------------------------------------------------------------------
(* C19 - Opaque fields pass through *)

\* C19: no step of apply_double_stackable, complete_packaging_triad,
\* complete_availability or apply_packaging_math, returning or raising,
\* changes a field other than the three triad and three availability fields.
C19_OpaquePassThrough ==
    [][\A k \in Fields \ NumericFields : row'[k] = row[k]]_vars

\* a pass that doubled, rounded and derived, with the ean (numeral text) as
\* given
C19_Witness ==
    /\ pc = "returned"
    /\ flag
    /\ input["availability_pieces"] = Chars(<<"2", ",", "5">>)
    /\ row["availability_pieces"] = PyInt(5)
    /\ input["availability_cartons"] = None
    /\ row["availability_cartons"] = PyInt(1)
    /\ row["ean"] = Chars(<<"8", "7", "1">>)
    /\ row["ean"] = input["ean"]

----------------------------------------------------------------------------
(* C20 - Pieces is the hub *)

\* the pieces count a fill of cartons or pallets reads in a
\* complete_availability step from r to s: the one given, else the one the
\* step reverse-derived
PiecesAtWrite(r, s) ==
    IF ValidPositive(r["availability_pieces"])
    THEN Denotes(r["availability_pieces"])
    ELSE Denotes(s["availability_pieces"])

\* C20: whenever a step turns an absent availability_cartons or
\* availability_pallets into a value, the value is ceil(pieces / divisor) for
\* the record's pieces at that moment (given, or just reverse-derived) and
\* divisor piece_per_case resp. pieces_per_pallet; and when pieces is absent
\* and neither reverse route is open, absent cartons and pallets stay absent,
\* whatever the other one and case_per_pallet hold.
C20_PiecesIsHub ==
    [][/\ (row["availability_cartons"] = None /\ row'["availability_cartons"] # None) =>
              /\ ValidPositive(row'["availability_pieces"])
              /\ row'["availability_cartons"] =
                    CeilOf(FDiv(PiecesAtWrite(row, row'), Denotes(row["piece_per_case"])))
       /\ (row["availability_pallets"] = None /\ row'["availability_pallets"] # None) =>
              /\ ValidPositive(row'["availability_pieces"])
              /\ row'["availability_pallets"] =
                    CeilOf(FDiv(PiecesAtWrite(row, row'), Denotes(row["pieces_per_pallet"])))
       /\ ( /\ row["availability_pieces"] = None
            /\ ~(ValidPositive(row["availability_cartons"]) /\ ValidPositive(row["piece_per_case"]))
            /\ ~(ValidPositive(row["availability_pallets"]) /\ ValidPositive(row["pieces_per_pallet"])) )
          => \A k \in {"availability_cartons", "availability_pallets"} :
                row[k] = None => row'[k] = None]_vars

\* cartons and case_per_pallet alone: pallets stay absent
C20_Witness ==
    /\ pc = "returned"
    /\ arg["availability_cartons"] = PyInt(5)
    /\ arg["case_per_pallet"] = PyInt(10)
    /\ arg["piece_per_case"] = None
    /\ arg["pieces_per_pallet"] = None
    /\ arg["availability_pieces"] = None
    /\ arg["availability_pallets"] = None
    /\ row["availability_cartons"] = PyInt(5)
    /\ row["availability_pallets"] = None

----------------------------------------------------------------------------
(* C21 - Fixpoint driver termination *)

\* C21: for every cap n >= 1, apply_packaging_math never starts a pass
\* beyond the n-th, and a pass that completes is the last one exactly when the
\* record it leaves equals the snapshot taken before it started, or it was the
\* n-th.
C21_DriverTermination ==
    /\ [](cap >= 1 =>
            /\ iter <= cap
            /\ pc \in {"triad", "avail"} => iter < cap)
    /\ [][(cap >= 1 /\ pc = "avail" /\ pc' # "raised") =>
            /\ iter' = iter + 1
            /\ pc' = "returned" <=> (DictEq(row', before) \/ iter' = cap)
            /\ pc' \in {"returned", "triad"}]_vars

\* cap 3: the first pass derived pieces from cartons, the second changed
\* nothing and was the last
C21_Witness ==
    /\ pc = "returned"
    /\ cap = DEFAULT_MAX_ITERATIONS
    /\ iter = 2
    /\ arg["availability_pieces"] = None
    /\ arg["availability_cartons"] = PyInt(5)
    /\ arg["piece_per_case"] = PyInt(12)
    /\ row["availability_pieces"] = PyInt(60)

----------------------------------------------------------------------------
(* C22 - Triad invariant on outputs *)

\* the three triad fields of record r are valid positive numbers
TriadKnown(r) == \A k \in TriadFields : ValidPositive(r[k])

\* A x B = C in record r
TriadHolds(r) ==
    FMul(Denotes(r["piece_per_case"]), Denotes(r["case_per_pallet"]))
        = Denotes(r["pieces_per_pallet"])

\* C22 (as stated): in every returned record whose three triad fields are
\* valid positive numbers, A x B = C, also when all three were supplied.
C22_TriadOnOutputs == (pc = "returned" /\ TriadKnown(row)) => TriadHolds(row)

\* C22 (amended): in every returned record whose three triad fields are valid
\* positive numbers and of which at least one was absent in the input,
\* A x B = C; three supplied values are returned as supplied.
C22_TriadOnDerivedOutputs ==
    pc = "returned" =>
        /\ (TriadKnown(row) /\ \E k \in TriadFields : arg[k] = None) =>
                TriadHolds(row)
        /\ TriadKnown(arg) => \A k \in TriadFields : row[k] = arg[k]

\* 2,5 pieces per case and 10 cases per pallet: 25 pieces per pallet derived
C22_Witness ==
    /\ pc = "returned"
    /\ arg["piece_per_case"] = Chars(<<"2", ",", "5">>)
    /\ arg["case_per_pallet"] = PyInt(10)
    /\ arg["pieces_per_pallet"] = None
    /\ row["pieces_per_pallet"] = Rat(25, 1)
    /\ TriadKnown(row)

----------------------------------------------------------------------------
(* C23 - Triad rule order independence *)

\* the orders in which the three rules can be evaluated
RuleOrders ==
    { <<"AB", "AC", "BC">>, <<"AB", "BC", "AC">>, <<"AC", "AB", "BC">>,
      <<"AC", "BC", "AB">>, <<"BC", "AB", "AC">>, <<"BC", "AC", "AB">> }

\* one rule on record r, with a, b, c as given
RuleNamed(name, r, a, b, c) ==
    CASE name = "AB" -> RuleAB(r, a, b)
      [] name = "AC" -> RuleAC(r, a, c)
      [] name = "BC" -> RuleBC(r, b, c)

\* the three rules in order o, all on the a, b, c read before the first one
InOrder(o, r, a, b, c) ==
    RuleNamed(o[3], RuleNamed(o[2], RuleNamed(o[1], r, a, b, c), a, b, c), a, b, c)

\* one rule on record r, reading a, b, c from r itself
RuleRereading(name, r) ==
    RuleNamed(name, r, _to_number(r["piece_per_case"]),
                       _to_number(r["case_per_pallet"]),
                       _to_number(r["pieces_per_pallet"]))

\* the three rules in order o, each reading what the one before left
InOrderRereading(o, r) ==
    RuleRereading(o[3], RuleRereading(o[2], RuleRereading(o[1], r)))

\* the result of a call on r equals t in every order, and also when every
\* rule is given the values written before it
SameWith(r, t, a, b, c) ==
    \A o \in RuleOrders :
        /\ InOrder(o, r, a, b, c) = t
        /\ InOrderRereading(o, r) = t

SameInEveryOrder(r, t) ==
    SameWith(r, t, _to_number(r["piece_per_case"]),
                   _to_number(r["case_per_pallet"]),
                   _to_number(r["pieces_per_pallet"]))

\* C23: a call of complete_packaging_triad changes at most one field, a triad
\* field that was absent; its result is the one of every order of the three
\* rules, and it stays the same when a rule is given the value another rule
\* wrote before it: no rule has a use for a written value.
C23_RuleOrderIndependence ==
    [][pc = "triad" =>
        /\ Cardinality({k \in Fields : row'[k] # row[k]}) <= 1
        /\ \A k \in Fields : row'[k] # row[k] => k \in TriadFields /\ row[k] = None
        /\ SameInEveryOrder(row, row')]_vars

\* the call that derived 12 pieces per case from 10 and 120
C23_Witness ==
    /\ pc = "avail"
    /\ iter = 0
    /\ before["piece_per_case"] = None
    /\ before["case_per_pallet"] = PyInt(10)
    /\ before["pieces_per_pallet"] = PyInt(120)
    /\ row["piece_per_case"] = Rat(12, 1)

----------------------------------------------------------------------------
(* C24 - Iteration-cap misuse is reported *)

\* C24: a call of apply_packaging_math with a negative iteration cap does not
\* come back as an ordinary return: the caller is told of an error.
C24_NegativeCapReported == ~(cap < 0 /\ pc = "returned" /\ exc = "none")

----------------------------------------------------------------------------
(* C25 - Booleans never count as numbers *)

IsBool(v) == v.t = "bool"

\* the pairs of fields a value of field t can be derived from
Routes(t) ==
    CASE t = "pieces_per_pallet" -> {{"piece_per_case", "case_per_pallet"}}
      [] t = "case_per_pallet" -> {{"piece_per_case", "pieces_per_pallet"}}
      [] t = "piece_per_case" -> {{"case_per_pallet", "pieces_per_pallet"}}
      [] t = "availability_cartons" -> {{"availability_pieces", "piece_per_case"}}
      [] t = "availability_pallets" -> {{"availability_pieces", "pieces_per_pallet"}}
      [] t = "availability_pieces" ->
            {{"availability_cartons", "piece_per_case"},
             {"availability_pallets", "pieces_per_pallet"}}

\* the steps that end with _finalize_availability_ints
Finalizing == pc = "avail" \/ (pc = "start" /\ flag)

\* C25: no step fills a field unless one of the pairs it can be derived from
\* is free of booleans; a boolean in a triad field stays as it is, a boolean
\* in an availability field is absent after every finalization that runs to
\* its end (and is neither doubled nor turned into 1 or 0).
C25_BooleansAreNotNumbers ==
    [][\A t \in NumericFields :
        /\ (row[t] = None /\ row'[t] # None) =>
                \E R \in Routes(t) : \A k \in R : ~IsBool(row[k])
        /\ (IsBool(row[t]) /\ t \in TriadFields) => row'[t] = row[t]
        /\ (IsBool(row[t]) /\ t \in AvailFields) =>
                /\ row'[t] \in {row[t], None}
                /\ (Finalizing /\ pc' # "raised") => row'[t] = None]_vars

\* True as pieces per case and 130 pieces: the pass is over, True is still
\* there, and no cartons were derived (130 / 1 would be 130)
C25_Witness ==
    /\ pc = "triad"
    /\ iter = 1
    /\ before["piece_per_case"] = PyBool(TRUE)
    /\ before["availability_pieces"] = PyInt(130)
    /\ arg["availability_cartons"] = None
    /\ before["availability_cartons"] = None

----------------------------------------------------------------------------
(* C26 - Junk is cleared, then refilled *)

\* text that does not read as a number
JunkText(v) == v.t = "str" /\ NonNumeric(v)

\* ceil(x * y) and ceil(x / y) of two values, as integers
CeilOfProduct(x, y) == CeilOf(FMul(Denotes(x), Denotes(y)))
CeilOfQuotient(x, y) == CeilOf(FDiv(Denotes(x), Denotes(y)))

\* field k of the returned record came out of pieces and the triad member m
FilledFromPieces(k, m) ==
    (JunkText(arg[k]) /\ ValidPositive(row["availability_pieces"])
                      /\ ValidPositive(row[m])) =>
        row[k] = CeilOfQuotient(row["availability_pieces"], row[m])

\* the supplier gave a usable amount in field k, and member m is known
Usable(k, m) == ValidPositive(arg[k]) /\ ValidPositive(row[m])

----------------------------------------------------------------------------
(* C27 - Crash-safe persistence *)

\* C27: whatever changes the state file puts the complete new counter of a
\* call that is saving in it: at every instant, also after a crash inside
\* _save_state, the state file holds the complete previous counter or the
\* complete new one.
C27_CrashSafePersistence ==
    [][file' # file =>
        \E s \in Sessions :
            /\ call[s].pc \in {"opened", "written"}
            /\ file' = Doc(JsonNumber(call[s].next_value))]_vars

----------------------------------------------------------------------------
(* C28 - Chunking partitions the rows *)

\* ceil(n / s) as the claim writes it
CeilOfRatio(n, s) == CHOOSE q \in 0 .. n : q * s >= n /\ (q = 0 \/ (q - 1) * s < n)

\* the smaller of x and y
Lesser(x, y) == IF x < y THEN x ELSE y

\* the ids of the rows [i*s, min((i+1)*s, n)), rows counted from 0, ids from 1
RowsOfChunk(i, s, n) == [j \in 1 .. (Lesser((i + 1) * s, n) - i * s) |-> i * s + j]

\* the chunk calls a sheet of n rows takes with chunk size s
ExpectedCalls(n, s) ==
    IF n = 0 THEN <<>>
    ELSE IF n <= s THEN <<[j \in 1 .. n |-> j]>>
    ELSE [i \in 1 .. CeilOfRatio(n, s) |-> RowsOfChunk(i - 1, s, n)]

RECURSIVE Concatenation(_)
Concatenation(lists) ==
    IF lists = <<>> THEN <<>> ELSE lists[1] \o Concatenation(Tail(lists))

\* the places (call, position) at which row id was sent
PlacesOf(id) ==
    {<<i, j>> \in (1 .. Len(sent)) \X (1 .. Len(rows)) :
        j <= Len(sent[i]) /\ sent[i][j] = id}

\* C28: the chunk calls made so far are the first of the calls the sheet
\* takes (none for no rows, one with all rows for n <= s, else ceil(n/s) with
\* rows [i*s, min((i+1)*s, n)) in call i), one call at a time; on return all of
\* them were made, every row was sent exactly once, no call holds more than s
\* rows, and the list returned is the concatenation of what the calls
\* returned, in order.
C28_ChunkingPartitions ==
    /\ Len(sent) <= Len(ExpectedCalls(Len(rows), chunk_size))
    /\ \A i \in 1 .. Len(sent) : sent[i] = ExpectedCalls(Len(rows), chunk_size)[i]
    /\ Len(results) <= Len(sent)
    /\ Len(sent) <= Len(results) + 1
    /\ xpc = "returned" =>
        /\ sent = ExpectedCalls(Len(rows), chunk_size)
        /\ Len(rows) = 0 => requests = 0
        /\ \A id \in 1 .. Len(rows) : Cardinality(PlacesOf(id)) = 1
        /\ \A i \in 1 .. Len(sent) : Len(sent[i]) <= chunk_size
        /\ Len(results) = Len(sent)
        /\ outcome = [exc |-> "none", val |-> Concatenation(results)]

\* three rows in chunks of two: calls with rows 1-2 and row 3, the second one
\* answered with one object
C28_Witness ==
    /\ xpc = "returned"
    /\ Len(rows) = 3
    /\ chunk_size = 2
    /\ sent = << <<1, 2>>, <<3>> >>
    /\ results = << <<1, 2>>, <<3>> >>
    /\ outcome.val = <<1, 2, 3>>

----------------------------------------------------------------------------
(* C29 - Size limit precedes every LLM call *)

\* the JSON text of all rows is longer than the limit
OverLimit == JsonChars(rows) > MAX_TEXT_CHARS_BEFORE_LLM

\* C29: for a sheet whose JSON text is over the limit no request is ever
\* made, no chunk call is entered, and process_excel_in_chunks ends by
\* raising ValueError, whether the rows fit one chunk or not.
C29_SizeLimitFirst ==
    (xpc # "off" /\ OverLimit) =>
        /\ requests = 0
        /\ sent = <<>>
        /\ xpc \in {"start", "raised"}
        /\ xpc = "raised" => outcome.exc = "ValueError"

\* three long rows that fit one chunk: refused, nothing requested
C29_Witness ==
    /\ xpc = "raised"
    /\ OverLimit
    /\ Len(rows) = 3
    /\ Len(rows) <= chunk_size
    /\ outcome.exc = "ValueError"
    /\ requests = 0

----------------------------------------------------------------------------
(* C30 - Bounded JSON repair loop *)

\* a step that ends a chunk call by returning
CallReturns == Len(results') = Len(results) + 1

\* a step that ends a chunk call by raising
CallRaises == xpc \in {"call", "fallback", "repair"} /\ xpc' = "raised"

\* every chunk call makes at most JSON_RETRY_ATTEMPTS parse attempts and one
\* repair request fewer, a repair request after every failed attempt but the
\* last; what it returns is what the parse of the last reply gave
BoundedRepair ==
    /\ [](/\ parses <= JSON_RETRY_ATTEMPTS
          /\ repairs <= JSON_RETRY_ATTEMPTS - 1
          /\ xpc = "repair" => (parses = repairs + 1 /\ repairs < JSON_RETRY_ATTEMPTS - 1)
          /\ xpc = "repair" => _parse_llm_response(raw_output).exc = "ValueError")
    /\ [][CallReturns =>
            /\ _parse_llm_response(raw_output').exc = "none"
            /\ results'[Len(results')] = ProductsOf(_parse_llm_response(raw_output').val)
            /\ parses' = repairs' + 1]_vars

\* C30 (as stated): at most 3 parse attempts and 2 repair requests; the call
\* returns at the first successful parse, and whenever it does not return it
\* raises ValueError after the last, third, failed attempt.
C30_BoundedRepairLoop ==
    /\ BoundedRepair
    /\ [][CallRaises =>
            /\ outcome'.exc = "ValueError"
            /\ parses' = JSON_RETRY_ATTEMPTS
            /\ _parse_llm_response(raw_output').exc = "ValueError"]_vars

\* C30 (amended): at most 3 parse attempts and 2 repair requests; the call
\* returns at the first successful parse; it raises ValueError after the
\* third failed attempt, or at once, with no attempt and no repair request,
\* when the reply to the extraction request has no content; a request that
\* fails for the second time in a row, or a repair request that fails, ends
\* the call with the exception of the client.
C30_BoundedRepairLoopOrEarlyExit ==
    /\ BoundedRepair
    /\ [][CallRaises =>
            \/ /\ outcome'.exc = "ValueError"
               /\ parses' = JSON_RETRY_ATTEMPTS
               /\ repairs' = JSON_RETRY_ATTEMPTS - 1
               /\ _parse_llm_response(raw_output').exc = "ValueError"
            \/ /\ outcome'.exc = "ValueError"
               /\ xpc \in {"call", "fallback"}
               /\ raw_output'.k = "none"
               /\ parses' = 0
               /\ repairs' = 0
            \/ /\ outcome'.exc = "APIError"
               /\ xpc \in {"fallback", "repair"}
               /\ UNCHANGED <<raw_output, parses>>]_vars

\* two replies that did not parse, two repair requests, and a third reply
\* that parsed after its trailing comma was dropped
C30_Witness ==
    /\ xpc = "returned"
    /\ parses = JSON_RETRY_ATTEMPTS
    /\ repairs = JSON_RETRY_ATTEMPTS - 1
    /\ raw_output.k = "trailing_comma"
    /\ Len(rows) = 2
    /\ outcome.val = <<1, 2>>

====
